---- MODULE Spec2Model ----
(***************************************************************************)
(* The chat widget AItest (src/unnamed/part_000) as a state machine: the   *)
(* React state of the component, the localStorage slot of the API key, and *)
(* the sendMessage calls that are suspended at one of their awaits.        *)
(*                                                                         *)
(* A JavaScript string is a string of its UTF-16 code units, one character *)
(* per unit; a unit outside ASCII is written #.  A JSON value is a tagged  *)
(* record (JNull, JStr, JArr, JObj); undefined is Undefined.               *)
(***************************************************************************)
EXTENDS Integers, Sequences, FiniteSets, TLC

VARIABLES
    model,          \* useState(defaultModel)
    history,        \* useState<ChatMsg[]>
    input,          \* useState('')
    apiKey,         \* useState('')
    rememberKey,    \* useState(true)
    loading,        \* useState(false)
    error,          \* useState('')
    starter,        \* the starter prop of the current render
    localStorage,   \* window.localStorage, as a function from key to value
    calls,          \* sendMessage invocations suspended at an await
    netCalls,       \* number of fetch() calls issued so far
    ev,             \* the sendMessage step (call or continuation) that ran last
    tIn,            \* argument of a direct toOpenAIMessages call
    tOut,           \* its result
    \* the landing page script (src/assets/js/app.js)
    hasCounter,     \* per .reveal element: reveal.querySelector('.counter') is not null
    dataTarget,     \* per .counter element: its data-target attribute
    listening,      \* the scroll listener is registered
    hasCounted,     \* let hasCounted
    active,         \* the .reveal elements whose classList has 'active'
    innerText,      \* per .counter element: its innerText
    timers,         \* pending setTimeout(updateCount, 16) callbacks, oldest first
    initRuns        \* number of initCounters() calls so far

progVars == <<model, history, input, apiKey, rememberKey, loading, error,
              starter, localStorage, calls, netCalls>>
pageVars == <<hasCounter, dataTarget, listening, hasCounted, active,
              innerText, timers, initRuns>>
vars == <<model, history, input, apiKey, rememberKey, loading, error,
          starter, localStorage, calls, netCalls, ev, tIn, tOut, pageVars>>

---------------------------------------------------------------------------
(* Bounds of the model *)

\* accepted sends (fetch calls) per behaviour
MaxSends == 2
\* conversation length given to toOpenAIMessages directly
MaxConv == 2
\* parts per message given to toOpenAIMessages directly
MaxParts == 2
\* .reveal elements of the page
MaxReveals == 2
\* .counter elements of the page
MaxCounters == 2

---------------------------------------------------------------------------
(* String constants of the source *)

Greeting == "## ### OpenAI Chat#######"

DefaultStarter == "##################"

MissingKeyMsg == "####### OpenAI API Key"

ErrPrefix == "OpenAI API ###HTTP "

ErrInfix == "##"

Ellipsis == "#"

NoContent == "[No content]"

Suggestions ==
    << "############",
       "############Hello from Taipei!",
       "##########" >>

StorageKey == "openai_api_key"

DefaultModel == "gpt-5"

\* safeShort's default n
DefaultN == 300

---------------------------------------------------------------------------
(* JavaScript values and built-ins *)

Undefined == [t |-> "undefined"]
JNull == [t |-> "null"]
JStr(s) == [t |-> "str", s |-> s]
JArr(a) == [t |-> "arr", a |-> a]
JObj(f) == [t |-> "obj", f |-> f]

Nullish(v) == v.t \in {"undefined", "null"}

\* a ?? b
Coalesce(a, b) == IF Nullish(a) THEN b ELSE a

\* v?.name
OptField(v, name) ==
    IF Nullish(v) THEN Undefined
    ELSE IF v.t = "obj" /\ name \in DOMAIN v.f THEN v.f[name]
    ELSE Undefined

\* v?.[i] with a JavaScript (0-based) index
OptIndex(v, i) ==
    IF Nullish(v) THEN Undefined
    ELSE IF v.t = "arr" /\ i + 1 \in DOMAIN v.a THEN v.a[i + 1]
    ELSE Undefined

WhiteSpace == {" ", "\t", "\n", "\r"}

RECURSIVE TrimStart(_)
TrimStart(s) ==
    IF s # "" /\ Head(s) \in WhiteSpace THEN TrimStart(Tail(s)) ELSE s

RECURSIVE TrimEnd(_)
TrimEnd(s) ==
    IF s # "" /\ SubSeq(s, Len(s), Len(s)) \in WhiteSpace
    THEN TrimEnd(SubSeq(s, 1, Len(s) - 1))
    ELSE s

\* String.prototype.trim
Trim(s) == TrimEnd(TrimStart(s))

\* Array.prototype.join over strings
RECURSIVE Join(_, _)
Join(strs, sep) ==
    IF strs = <<>> THEN ""
    ELSE IF Len(strs) = 1 THEN strs[1]
    ELSE strs[1] \o sep \o Join(Tail(strs), sep)

\* s.slice(0, n) for 0 <= n
Slice0(s, n) == SubSeq(s, 1, IF n < Len(s) THEN n ELSE Len(s))

DigitChar(d) == SubSeq("0123456789", d + 1, d + 1)

\* the decimal text of a non-negative integer, as a template literal prints it
RECURSIVE NumToString(_)
NumToString(k) ==
    IF k < 10 THEN DigitChar(k)
    ELSE NumToString(k \div 10) \o DigitChar(k % 10)

\* new Error(message) and the errors the platform raises
MkError(name, message) == [name |-> name, message |-> message]

\* String(err) for an Error object
ErrToString(err) ==
    IF err.message = "" THEN err.name
    ELSE err.name \o ": " \o err.message

---------------------------------------------------------------------------
(* Values the environment supplies *)

\* model ids typed into the Model field
Models == {DefaultModel, "gpt-4o-mini"}

\* values typed into the API key field
Keys == {"", "sk-A"}

\* values typed into the composer: blanks only, and the starter text between blanks
Inputs == {" ", " " \o DefaultStarter \o " \n"}

\* values of the starter prop
Starters == {"", DefaultStarter}

\* HTTP statuses of a response; resp.ok is 200..299
Statuses == {200, 401}

RespOk(status) == 200 <= status /\ status <= 299

RECURSIVE Repeat(_, _)
Repeat(ch, k) ==
    IF k = 0 THEN ""
    ELSE LET half == Repeat(ch, k \div 2)
         IN  IF k % 2 = 0 THEN half \o half ELSE half \o half \o ch

\* bodies of a non-success response, around safeShort's bound
ErrBodies == {Repeat("x", k) : k \in {0, DefaultN, DefaultN + 2}}

TypeErrorName == "TypeError"

SyntaxErrorName == "SyntaxError"

FailedToFetch == "Failed to fetch"

\* rejections of fetch() and of a body read: a network fault
Faults ==
    { MkError(TypeErrorName, FailedToFetch),
      MkError(TypeErrorName, ""),
      MkError(TypeErrorName, Repeat("y", DefaultN + 1)) }

\* rejection of resp.json() on a body that is not JSON (an empty body included)
ParseError == MkError(SyntaxErrorName, "Unexpected")

Hello == "Hello"

Completion(content) ==
    JObj([choices |-> JArr(<<JObj([message |-> JObj([content |-> content])])>>)])

\* parsed bodies of a success response
Datas ==
    { Completion(JStr(Hello)),
      Completion(JNull),
      JObj([choices |-> JArr(<<JObj([message |-> JObj(<<>>)])>>)]),
      JObj([choices |-> JArr(<<JObj(<<>>)>>)]),
      JObj([choices |-> JArr(<<>>)]),
      JObj(<<>>),
      JNull }

---------------------------------------------------------------------------
(* Pure functions of the component *)

UserMsg(content) == [role |-> "user", parts |-> <<[text |-> content]>>]

ModelMsg(reply) == [role |-> "model", parts |-> <<[text |-> reply]>>]

PartTexts(msg) == [i \in DOMAIN msg.parts |-> msg.parts[i].text]

\* mutant of OpenAIRole: the internal role name is passed through
OpenAIRole_identity(role) == role

OpenAIRole(role) == IF role = "model" THEN "assistant" ELSE "user"

OpenAIContent(msg) == Join(PartTexts(msg), "\n")

toOpenAIMessages(h) ==
    [i \in DOMAIN h |->
        [role |-> OpenAIRole(h[i].role), content |-> OpenAIContent(h[i])]]

\* mutant of safeShort: nothing is cut
safeShort_noCut(s, n) == s

safeShort(s, n) ==
    IF s = "" THEN ""
    ELSE IF Len(s) > n THEN Slice0(s, n) \o Ellipsis
    ELSE s

\* the Error thrown for a non-success response
HttpError(status, errText) ==
    MkError("Error",
            ErrPrefix \o NumToString(status) \o ErrInfix \o safeShort(errText, DefaultN))

\* err?.message || String(err)
CatchMessage(err) ==
    IF err.message # "" THEN err.message ELSE ErrToString(err)

\* mutant of ReplyOf: the fallback is the empty string
ReplyOf_emptyFallback(data) ==
    LET c == OptField(OptField(OptIndex(OptField(data, "choices"), 0), "message"), "content")
    IN  IF Nullish(c) THEN "" ELSE c.s

\* data?.choices?.[0]?.message?.content ?? '[No content]'
ReplyOf(data) ==
    LET c == OptField(OptField(OptIndex(OptField(data, "choices"), 0), "message"), "content")
    IN  IF Nullish(c) THEN NoContent ELSE c.s

\* mutant of SendContent: the text is not trimmed
SendContent_noTrim(message) == Coalesce(message, JStr(input)).s

\* (message ?? input).trim()
SendContent(message) == Trim(Coalesce(message, JStr(input)).s)

\* mutant of SendIgnored: the in-flight flag is not consulted
SendIgnored_noLoading(content) == content = ""

\* mutant of SendIgnored: an empty text is not rejected
SendIgnored_noEmpty(content) == loading

\* if (!content || loading) return
SendIgnored(content) == content = "" \/ loading

\* mutant of KeyMissing: the credential is not checked
KeyMissing_never == FALSE

\* if (!apiKey) { setError(...); return }
KeyMissing == apiKey = ""

getItem(key) == IF key \in DOMAIN localStorage THEN JStr(localStorage[key]) ELSE JNull

setItem(key, value) ==
    [k \in DOMAIN localStorage \cup {key} |-> IF k = key THEN value ELSE localStorage[k]]

removeItem(key) == [k \in DOMAIN localStorage \ {key} |-> localStorage[k]]

Event(op, note) == [op |-> op, note |-> note]

---------------------------------------------------------------------------
(* Initial state: the component after its mount effects have run *)

\* what an earlier session left in localStorage
StoredAtStart == {<<>>} \cup {[k \in {StorageKey} |-> v] : v \in Keys}

\* useEffect(() => { const saved = getItem(..); if (saved) setApiKey(saved) }, [])
LoadSavedKey(saved) == IF ~Nullish(saved) /\ saved.s # "" THEN saved.s ELSE ""

\* mutant of Call: the request is built from the state's history, which
\* does not have the new user message yet
Call_oldHistory(id, pc, newHistory, status) ==
    [id |-> id, pc |-> pc, newHistory |-> newHistory,
     key |-> apiKey, model |-> model,
     messages |-> toOpenAIMessages(history), status |-> status]

\* the call record of a suspended sendMessage: its locals and where it waits
Call(id, pc, newHistory, status) ==
    [id |-> id, pc |-> pc, newHistory |-> newHistory,
     key |-> apiKey, model |-> model,
     messages |-> toOpenAIMessages(newHistory), status |-> status]

\* the page script has not run: the widget is checked on its own
NoPage ==
    /\ hasCounter = <<>>
    /\ dataTarget = <<>>
    /\ listening = FALSE
    /\ hasCounted = FALSE
    /\ active = {}
    /\ innerText = <<>>
    /\ timers = <<>>
    /\ initRuns = 0

Init ==
    /\ NoPage
    /\ model = DefaultModel
    /\ starter \in Starters
    /\ localStorage \in StoredAtStart
    /\ apiKey = LoadSavedKey(getItem(StorageKey))
    /\ history = <<ModelMsg(Greeting)>>
    /\ input = starter
    /\ rememberKey = TRUE
    /\ loading = FALSE
    /\ error = ""
    /\ calls = {}
    /\ netCalls = 0
    /\ ev = Event("mount", "")
    /\ tIn = <<>>
    /\ tOut = <<>>

---------------------------------------------------------------------------
(* Field handlers *)

\* onChange of the Model field
onModelChange(v) ==
    /\ v # model
    /\ model' = v
    /\ UNCHANGED <<ev, history, input, apiKey, rememberKey, loading, error,
                   starter, localStorage, calls, netCalls, tIn, tOut, pageVars>>

\* mutant of onInputChange: the composer is locked while a request is in flight
onInputChange_lockedWhileLoading(v) ==
    /\ ~loading
    /\ v # input
    /\ input' = v
    /\ UNCHANGED <<ev, model, history, apiKey, rememberKey, loading, error,
                   starter, localStorage, calls, netCalls, tIn, tOut, pageVars>>

\* onChange of the composer
onInputChange(v) ==
    /\ v # input
    /\ input' = v
    /\ UNCHANGED <<ev, model, history, apiKey, rememberKey, loading, error,
                   starter, localStorage, calls, netCalls, tIn, tOut, pageVars>>

\* mutant of KeyEditStorage: the key is stored whatever the checkbox says
KeyEditStorage_always(v) == setItem(StorageKey, v)

\* mutant of KeyEditStorage: an emptied key is not written
KeyEditStorage_skipEmpty(v) ==
    IF rememberKey /\ v # "" THEN setItem(StorageKey, v) ELSE localStorage

\* what the key field's onChange leaves in localStorage
KeyEditStorage(v) ==
    IF rememberKey THEN setItem(StorageKey, v) ELSE localStorage

\* onChange of the API key field
onApiKeyChange(v) ==
    /\ v # apiKey
    /\ apiKey' = v
    /\ localStorage' = KeyEditStorage(v)
    /\ UNCHANGED <<ev, model, history, input, rememberKey, loading, error,
                   starter, calls, netCalls, tIn, tOut, pageVars>>

\* what the checkbox's onChange leaves in localStorage
RememberStorage(checked) ==
    IF ~checked THEN removeItem(StorageKey)
    ELSE IF apiKey # "" THEN setItem(StorageKey, apiKey)
    ELSE localStorage

\* onChange of the remember checkbox
onRememberChange(checked) ==
    /\ checked # rememberKey
    /\ rememberKey' = checked
    /\ localStorage' = RememberStorage(checked)
    /\ UNCHANGED <<ev, model, history, input, apiKey, loading, error,
                   starter, calls, netCalls, tIn, tOut, pageVars>>

\* the conversation the [starter] effect sets
StarterHistory == <<ModelMsg(Greeting)>>

\* a render with another starter prop: the [starter] effect runs again
onStarterChange(s) ==
    /\ s # starter
    /\ starter' = s
    /\ history' = StarterHistory
    /\ input' = IF s # "" THEN s ELSE input
    /\ UNCHANGED <<ev, model, apiKey, rememberKey, loading, error,
                   localStorage, calls, netCalls, tIn, tOut, pageVars>>

---------------------------------------------------------------------------
(* sendMessage: the synchronous part, up to the await of fetch() *)

\* const newHistory = [...history, { role: 'user', parts: [{ text: content }] }]
NewHistory(content) == Append(history, UserMsg(content))

\* the calls suspended once this one has issued its fetch
Dispatch(content) ==
    calls \cup {Call(netCalls + 1, "fetch", NewHistory(content), 0)}

\* mutant of ClearedError: the previous error is left showing
ClearedError_kept == error

\* setError('') of an accepted send
ClearedError == ""

sendMessage(message) ==
    LET content == SendContent(message) IN
    IF SendIgnored(content) THEN
        /\ ev' = Event("sendMessage", "ignored")
        /\ UNCHANGED <<progVars, tIn, tOut, pageVars>>
    ELSE IF KeyMissing THEN
        /\ error' = MissingKeyMsg
        /\ ev' = Event("sendMessage", "nokey")
        /\ UNCHANGED <<model, history, input, apiKey, rememberKey, loading,
                       starter, localStorage, calls, netCalls, tIn, tOut, pageVars>>
    ELSE
        /\ netCalls < MaxSends
        /\ error' = ClearedError
        /\ loading' = TRUE
        /\ history' = NewHistory(content)
        /\ input' = ""
        /\ calls' = Dispatch(content)
        /\ netCalls' = netCalls + 1
        /\ ev' = Event("sendMessage", "accepted")
        /\ UNCHANGED <<model, apiKey, rememberKey, starter, localStorage, tIn, tOut, pageVars>>

\* onSubmit of the composer form: sendMessage()
onSubmit == sendMessage(Undefined)

\* onClick of the i-th quick example: sendMessage(q)
onSuggestionClick(i) == sendMessage(JStr(Suggestions[i]))

---------------------------------------------------------------------------
(* sendMessage: the continuations after each await *)

\* setHistory(h => [...h, { role: 'model', parts: [{ text: reply }] }])
ReplyHistory(reply) == Append(history, ModelMsg(reply))

\* finally { setLoading(false) }
FinallyLoading == FALSE

\* mutant of Thrown: the catch path does not reach setLoading(false)
Thrown_noFinally(c, err, op) ==
    /\ error' = CatchMessage(err)
    /\ calls' = calls \ {c}
    /\ ev' = Event(op, "")
    /\ UNCHANGED <<model, history, input, apiKey, rememberKey, loading,
                   starter, localStorage, netCalls, tIn, tOut, pageVars>>

\* catch (err) { setError(err?.message || String(err)) } finally { ... }
Thrown(c, err, op) ==
    /\ error' = CatchMessage(err)
    /\ loading' = FinallyLoading
    /\ calls' = calls \ {c}
    /\ ev' = Event(op, "")
    /\ UNCHANGED <<model, history, input, apiKey, rememberKey,
                   starter, localStorage, netCalls, tIn, tOut, pageVars>>

\* where the call waits once fetch() has resolved
AfterFetch(status) == IF ~RespOk(status) THEN "text" ELSE "json"

\* mutant of fetchResolved: the flag is cleared once the response headers
\* are in, before the body is read
fetchResolved_clearsLoading(c, status) ==
    /\ c.pc = "fetch"
    /\ calls' = (calls \ {c}) \cup {[c EXCEPT !.pc = AfterFetch(status), !.status = status]}
    /\ loading' = FALSE
    /\ ev' = Event("fetchResolved", "")
    /\ UNCHANGED <<model, history, input, apiKey, rememberKey, error,
                   starter, localStorage, netCalls, tIn, tOut, pageVars>>

\* fetch() resolves with a response; the call goes on to read the body
fetchResolved(c, status) ==
    /\ c.pc = "fetch"
    /\ calls' = (calls \ {c}) \cup {[c EXCEPT !.pc = AfterFetch(status), !.status = status]}
    /\ ev' = Event("fetchResolved", "")
    /\ UNCHANGED <<model, history, input, apiKey, rememberKey, loading, error,
                   starter, localStorage, netCalls, tIn, tOut, pageVars>>

\* fetch() rejects: a network fault
fetchRejected(c, err) ==
    /\ c.pc = "fetch"
    /\ Thrown(c, err, "fetchRejected")

\* resp.text() resolves on a non-success response: throw new Error(...)
textResolved(c, errText) ==
    /\ c.pc = "text"
    /\ Thrown(c, HttpError(c.status, errText), "textResolved")

\* resp.text() rejects
textRejected(c, err) ==
    /\ c.pc = "text"
    /\ Thrown(c, err, "textRejected")

\* resp.json() resolves: the reply is appended
jsonResolved(c, data) ==
    /\ c.pc = "json"
    /\ history' = ReplyHistory(ReplyOf(data))
    /\ loading' = FinallyLoading
    /\ calls' = calls \ {c}
    /\ ev' = Event("jsonResolved", "")
    /\ UNCHANGED <<model, input, apiKey, rememberKey, error,
                   starter, localStorage, netCalls, tIn, tOut, pageVars>>

\* resp.json() rejects: the body is not JSON, or the read failed
jsonRejected(c, err) ==
    /\ c.pc = "json"
    /\ Thrown(c, err, "jsonRejected")

\* some await of some suspended call settles
Settle ==
    \E c \in calls :
        \/ \E status \in Statuses : fetchResolved(c, status)
        \/ \E err \in Faults : fetchRejected(c, err)
        \/ \E errText \in ErrBodies : textResolved(c, errText)
        \/ \E err \in Faults : textRejected(c, err)
        \/ \E data \in Datas : jsonResolved(c, data)
        \/ \E err \in Faults \cup {ParseError} : jsonRejected(c, err)

---------------------------------------------------------------------------
(* The component *)

\* the quick examples that get clicked: the buttons differ only in their text
Clicked == {1}

Next ==
    \/ \E v \in Models : onModelChange(v)
    \/ \E v \in Inputs : onInputChange(v)
    \/ \E v \in Keys : onApiKeyChange(v)
    \/ \E checked \in BOOLEAN : onRememberChange(checked)
    \/ \E s \in Starters : onStarterChange(s)
    \/ onSubmit
    \/ \E i \in Clicked : onSuggestionClick(i)
    \/ \E c \in calls, status \in Statuses : fetchResolved(c, status)
    \/ \E c \in calls, err \in Faults : fetchRejected(c, err)
    \/ \E c \in calls, errText \in ErrBodies : textResolved(c, errText)
    \/ \E c \in calls, err \in Faults : textRejected(c, err)
    \/ \E c \in calls, data \in Datas : jsonResolved(c, data)
    \/ \E c \in calls, err \in Faults \cup {ParseError} : jsonRejected(c, err)

Spec == Init /\ [][Next]_vars

\* every await settles: the transport and the body reads do not hang
FairSpec == Spec /\ WF_vars(Settle)

---------------------------------------------------------------------------
(* toOpenAIMessages called directly on any conversation *)

TextsT == {"", "ab"}

PartsT == UNION {[1..k -> {[text |-> t] : t \in TextsT}] : k \in 0..MaxParts}

MsgsT == {[role |-> r, parts |-> ps] : r \in {"user", "model"}, ps \in PartsT}

ConvsT == UNION {[1..k -> MsgsT] : k \in 0..MaxConv}

InitT ==
    /\ NoPage
    /\ model = DefaultModel
    /\ starter = DefaultStarter
    /\ localStorage = <<>>
    /\ apiKey = ""
    /\ history = <<ModelMsg(Greeting)>>
    /\ input = starter
    /\ rememberKey = TRUE
    /\ loading = FALSE
    /\ error = ""
    /\ calls = {}
    /\ netCalls = 0
    /\ ev = Event("mount", "")
    /\ tIn \in ConvsT
    /\ tOut = <<>>

callTransform ==
    /\ ev.op = "mount"
    /\ tOut' = toOpenAIMessages(tIn)
    /\ ev' = Event("toOpenAIMessages", "")
    /\ UNCHANGED <<progVars, tIn, pageVars>>

NextT == callTransform

SpecT == InitT /\ [][NextT]_vars

---------------------------------------------------------------------------
(* The landing page script: scroll reveal and counter animation *)

\* const elementVisible = 80
ElementVisible == 80

\* const speed = 1000
Speed == 1000

\* the frame time in speed / 16 and setTimeout(updateCount, 16)
FrameMs == 16

\* document.querySelectorAll('.reveal'), in document order
Reveals == 1..MaxReveals

\* document.querySelectorAll('.counter'), in document order
Counters == 1..MaxCounters

CounterSeq == [i \in 1..MaxCounters |-> i]

\* data-target attributes: 0, a target the increment divides, and one it does not
Targets == {"0", "2", "63"}

\* window.innerHeight at a scroll event
WindowHeights == {600}

\* getBoundingClientRect().top of a reveal element at a scroll event: the
\* last position in view and the first one out of it
Tops == {519, 520}

DigitVal(ch) == CHOOSE d \in 0..9 : DigitChar(d) = ch

\* +s for a string of decimal digits; +'' is 0
RECURSIVE ToNumber(_)
ToNumber(s) ==
    IF s = "" THEN 0
    ELSE 10 * ToNumber(SubSeq(s, 1, Len(s) - 1)) + DigitVal(SubSeq(s, Len(s), Len(s)))

\* Math.ceil(a / b) for a >= 0, b > 0
CeilDiv(a, b) == (a + b - 1) \div b

\* mutant of NextCount: Math.floor in place of Math.ceil
NextCount_floor(count, target) == count + ((FrameMs * target) \div Speed)

\* Math.ceil(count + target / (speed / 16)) for integers count, target >= 0:
\* count is an integer, so the ceiling adds the ceiling of 16 * target / speed
NextCount(count, target) == count + CeilDiv(FrameMs * target, Speed)

\* if (count < target): updateCount schedules itself again
Rearms(c, text) == ToNumber(text) < ToNumber(dataTarget[c])

\* mutant of CountedText: the new count is capped at the target
CountedText_capped(c, text) ==
    LET count == ToNumber(text)
        target == ToNumber(dataTarget[c])
        next == NextCount(count, target)
    IN  IF count < target THEN NumToString(IF next > target THEN target ELSE next)
        ELSE NumToString(target)

\* the innerText one run of updateCount leaves in counter c showing text
CountedText(c, text) ==
    LET count == ToNumber(text)
        target == ToNumber(dataTarget[c])
    IN  IF count < target THEN NumToString(NextCount(count, target))
        ELSE NumToString(target)

\* elementTop < windowHeight - elementVisible
InView(elementTop, windowHeight) == elementTop < windowHeight - ElementVisible

\* the script's state while revealOnScroll runs
PageState ==
    [hasCounted |-> hasCounted, active |-> active, innerText |-> innerText,
     timers |-> timers, initRuns |-> initRuns]

\* initCounters(): every counter runs updateCount once, in document order
initCounters(st) ==
    [st EXCEPT
        !.innerText = [c \in Counters |-> CountedText(c, st.innerText[c])],
        !.timers = @ \o SelectSeq(CounterSeq, LAMBDA c : Rearms(c, st.innerText[c])),
        !.initRuns = @ + 1]

\* mutant of MarkCounted: the flag is not set
MarkCounted_forgotten(st) == st

\* hasCounted = true
MarkCounted(st) == [st EXCEPT !.hasCounted = TRUE]

\* the body of reveals.forEach for the reveal element r
RevealOne(r, st, tops, windowHeight) ==
    IF InView(tops[r], windowHeight) THEN
        LET shown == [st EXCEPT !.active = @ \cup {r}] IN
        IF hasCounter[r] /\ ~shown.hasCounted
        THEN MarkCounted(initCounters(shown))
        ELSE shown
    ELSE st

\* reveals.forEach from the i-th element on
RECURSIVE RevealFrom(_, _, _, _)
RevealFrom(i, st, tops, windowHeight) ==
    IF i > MaxReveals THEN st
    ELSE RevealFrom(i + 1, RevealOne(i, st, tops, windowHeight), tops, windowHeight)

\* one call of revealOnScroll with the page scrolled so that the tops are tops
RevealAll(tops, windowHeight) ==
    LET st == RevealFrom(1, PageState, tops, windowHeight) IN
    /\ hasCounted' = st.hasCounted
    /\ active' = st.active
    /\ innerText' = st.innerText
    /\ timers' = st.timers
    /\ initRuns' = st.initRuns

\* the DOMContentLoaded listener: registers the scroll listener and calls
\* revealOnScroll() once
DOMContentLoaded(tops, windowHeight) ==
    /\ ~listening
    /\ listening' = TRUE
    /\ RevealAll(tops, windowHeight)
    /\ UNCHANGED <<progVars, ev, tIn, tOut, hasCounter, dataTarget>>

\* a scroll event
revealOnScroll(tops, windowHeight) ==
    /\ listening
    /\ RevealAll(tops, windowHeight)
    /\ UNCHANGED <<progVars, ev, tIn, tOut, hasCounter, dataTarget, listening>>

\* the oldest pending timeout fires
updateCount ==
    /\ timers # <<>>
    /\ LET c == Head(timers) IN
       /\ innerText' = [innerText EXCEPT ![c] = CountedText(c, @)]
       /\ timers' = IF Rearms(c, innerText[c]) THEN Append(Tail(timers), c)
                    ELSE Tail(timers)
    /\ UNCHANGED <<progVars, ev, tIn, tOut, hasCounter, dataTarget, listening,
                   hasCounted, active, initRuns>>

\* the chat widget is not on the page
NoWidget ==
    /\ model = DefaultModel
    /\ starter = ""
    /\ localStorage = <<>>
    /\ apiKey = ""
    /\ history = <<>>
    /\ input = ""
    /\ rememberKey = TRUE
    /\ loading = FALSE
    /\ error = ""
    /\ calls = {}
    /\ netCalls = 0
    /\ ev = Event("", "")
    /\ tIn = <<>>
    /\ tOut = <<>>

\* the document is parsed; every counter shows 0
InitC ==
    /\ NoWidget
    /\ hasCounter \in [Reveals -> BOOLEAN]
    /\ dataTarget \in [Counters -> Targets]
    /\ listening = FALSE
    /\ hasCounted = FALSE
    /\ active = {}
    /\ innerText = [c \in Counters |-> "0"]
    /\ timers = <<>>
    /\ initRuns = 0

NextC ==
    \/ \E tops \in [Reveals -> Tops], h \in WindowHeights : DOMContentLoaded(tops, h)
    \/ \E tops \in [Reveals -> Tops], h \in WindowHeights : revealOnScroll(tops, h)
    \/ updateCount

SpecC == InitC /\ [][NextC]_vars

\* the event loop runs every timeout that is due
FairSpecC == SpecC /\ WF_vars(updateCount)

---------------------------------------------------------------------------
(* Properties of the request dispatcher *)

\* the arguments sendMessage is called with
SendArgs == {Undefined} \cup {JStr(Suggestions[i]) : i \in Clicked}

\* the text a call sendMessage(m) is about, trimmed
TextOf(m) == Trim(IF m = Undefined THEN input ELSE m.s)

HasItem == StorageKey \in DOMAIN localStorage

\* C1: in every reachable state at most one network request is outstanding,
\* and the in-flight flag is set exactly while one is, so a sendMessage call
\* made while the flag is set never issues a second fetch.
C1_OneRequestInFlight ==
    /\ Cardinality(calls) <= 1
    /\ loading <=> calls # {}

\* a submit was ignored while the single request was outstanding
C1_Witness ==
    /\ ev = Event("sendMessage", "ignored")
    /\ loading
    /\ Cardinality(calls) = 1
    /\ netCalls = 1

\* C2: a sendMessage call whose text is empty after trimming, or that is made
\* while a request is in flight, changes nothing: conversation, pending input,
\* in-flight flag, error string and the requests issued all stay as they were.
C2_IgnoredSendIsNoOp ==
    [][\A m \in SendArgs :
          (sendMessage(m) /\ (TextOf(m) = "" \/ loading))
              => UNCHANGED <<history, input, loading, error, calls, netCalls>>]_vars

\* a blank composer was submitted with a key set and nothing in flight,
\* after a completed turn
C2_Witness ==
    /\ ev = Event("sendMessage", "ignored")
    /\ ~loading
    /\ apiKey # ""
    /\ Trim(input) = ""
    /\ input # ""
    /\ Len(history) > 1

\* C3 as stated: with an empty credential, every sendMessage of a text that
\* is non-empty after trimming issues no network call, leaves the error
\* string non-empty, appends nothing and does not set the in-flight flag.
C3_Original ==
    [][\A m \in SendArgs :
          (sendMessage(m) /\ TextOf(m) # "" /\ apiKey = "")
              => /\ netCalls' = netCalls
                 /\ calls' = calls
                 /\ error' # ""
                 /\ history' = history
                 /\ loading' = loading]_vars

\* C3 amended: with an empty credential and no request in flight, sendMessage
\* of a text that is non-empty after trimming issues no network call, sets
\* the error string to the missing-key message, appends nothing and leaves
\* the in-flight flag clear; while a request is in flight the call is ignored
\* and the error string stays as it was.
C3_MissingKeyBlocksSend ==
    [][\A m \in SendArgs :
          (sendMessage(m) /\ TextOf(m) # "" /\ apiKey = "")
              => /\ netCalls' = netCalls
                 /\ calls' = calls
                 /\ history' = history
                 /\ loading' = loading
                 /\ IF loading THEN error' = error
                    ELSE error' = MissingKeyMsg /\ error' # ""]_vars

\* the missing-key error is showing and nothing was sent
C3_Witness ==
    /\ ev = Event("sendMessage", "nokey")
    /\ apiKey = ""
    /\ error = MissingKeyMsg
    /\ ~loading
    /\ calls = {}

\* C4: every sendMessage that passes the preconditions appends exactly one
\* user message carrying the trimmed text at the end of the conversation, and
\* the request it issues is built from the conversation with that message
\* already appended.
C4_OptimisticAppend ==
    [][\A m \in SendArgs :
          (sendMessage(m) /\ TextOf(m) # "" /\ ~loading /\ apiKey # "")
              => /\ history' = history \o <<UserMsg(TextOf(m))>>
                 /\ netCalls' = netCalls + 1
                 /\ \E c \in calls' \ calls :
                       /\ calls' = calls \cup {c}
                       /\ c.pc = "fetch"
                       /\ c.newHistory = history'
                       /\ Len(c.messages) = Len(history) + 1
                       /\ c.messages[Len(c.messages)]
                            = [role |-> "user", content |-> TextOf(m)]]_vars

\* the padded starter text was sent: its trimmed form is the last entry
C4_Witness ==
    /\ ev = Event("sendMessage", "accepted")
    /\ loading
    /\ Len(history) = 2
    /\ history[2] = UserMsg(DefaultStarter)
    /\ \E c \in calls : c.pc = "fetch" /\ c.newHistory = history

\* the call c ends in a network fault or a non-success HTTP status
FailsWith(c) ==
    \/ \E err \in Faults :
          fetchRejected(c, err) \/ textRejected(c, err) \/ jsonRejected(c, err)
    \/ \E errText \in ErrBodies : textResolved(c, errText)

\* C5: when an accepted sendMessage(x) completes with a successful response
\* whose first completion text is T, the conversation is the conversation as
\* it was before the send, followed by {user, x}, followed by {assistant, T}.
C5_Original ==
    [][\A c \in calls :
          jsonResolved(c, Completion(JStr(Hello)))
              => history' = c.newHistory \o <<ModelMsg(Hello)>>]_vars

\* C6: when an accepted sendMessage(x) ends in a non-success HTTP status or a
\* network fault, the optimistic {user, x} entry is the last entry of the
\* conversation, the in-flight flag is false and the error string is non-empty.
C6_Original ==
    [][\A c \in calls :
          FailsWith(c)
              => /\ history' # <<>>
                 /\ history'[Len(history')] = c.newHistory[Len(c.newHistory)]
                 /\ loading' = FALSE
                 /\ error' # ""]_vars

---------------------------------------------------------------------------
(* Properties of the error string *)

FailOps == {"fetchRejected", "textResolved", "textRejected", "jsonRejected"}

\* the length of the prefix "OpenAI API ..（HTTP <status>）：" for a 3-digit status
PrefixLen == Len(ErrPrefix) + 3 + Len(ErrInfix)

\* C7 as stated: the error string stored after any failed turn is at most
\* n = 300 characters long.
C7_Original == ev.op \in FailOps => Len(error) <= DefaultN

\* C7 amended: after a non-success HTTP status the error string is the fixed
\* prefix followed by the body when the body has at most n characters, and by
\* its first n characters and an ellipsis otherwise, so it is at most
\* PrefixLen + n + 1 characters long; after a rejected fetch or body read it is
\* the fault's message as it is (the error's name when the message is empty).
C7_ErrorStringBound ==
    /\ ev.op = "textResolved" =>
          LET tail == SubSeq(error, PrefixLen + 1, Len(error)) IN
          /\ SubSeq(error, 1, Len(ErrPrefix)) = ErrPrefix
          /\ SubSeq(error, PrefixLen - Len(ErrInfix) + 1, PrefixLen) = ErrInfix
          /\ \E b \in ErrBodies :
                tail = IF Len(b) <= DefaultN THEN b
                       ELSE SubSeq(b, 1, DefaultN) \o Ellipsis
          /\ Len(error) <= PrefixLen + DefaultN + 1
    /\ ev.op \in FailOps \ {"textResolved"} =>
          \E err \in Faults \cup {ParseError} :
              error = IF err.message = "" THEN err.name ELSE err.message

\* a body longer than n was cut: prefix, n characters and the ellipsis
C7_Witness ==
    /\ ev.op = "textResolved"
    /\ Len(error) = PrefixLen + DefaultN + 1
    /\ SubSeq(error, Len(error), Len(error)) = Ellipsis
    /\ ~loading

---------------------------------------------------------------------------
(* Liveness of the in-flight flag *)

\* C8: every accepted sendMessage that set the in-flight flag eventually
\* clears it, whichever way its awaits settle, provided they settle.
C8_LoadingEventuallyCleared == loading ~> ~loading

\* the flag was cleared on the path where resp.json() threw
C8_Witness ==
    /\ ev.op = "jsonRejected"
    /\ ~loading
    /\ calls = {}
    /\ netCalls >= 1

---------------------------------------------------------------------------
(* Properties of toOpenAIMessages *)

\* position of the first newline of s, 0 when there is none
FirstNewline(s) ==
    IF \E i \in 1..Len(s) : SubSeq(s, i, i) = "\n"
    THEN CHOOSE i \in 1..Len(s) :
            /\ SubSeq(s, i, i) = "\n"
            /\ \A j \in 1..(i - 1) : SubSeq(s, j, j) # "\n"
    ELSE 0

\* text.split(/\n/)
RECURSIVE SplitLines(_)
SplitLines(s) ==
    LET i == FirstNewline(s) IN
    IF i = 0 THEN <<s>>
    ELSE <<SubSeq(s, 1, i - 1)>> \o SplitLines(SubSeq(s, i + 1, Len(s)))

\* C9: toOpenAIMessages applied to a conversation of length N returns N
\* entries in the same order; entry i has role 'assistant' when the
\* conversation's entry i has role 'model' and 'user' when it has role 'user',
\* and its content is the entry's part texts joined with newlines (splitting
\* it at the newlines gives the part texts back); the component's state is
\* left as it was.
C9_TransformShape ==
    ev.op = "toOpenAIMessages" =>
        /\ Len(tOut) = Len(tIn)
        /\ \A i \in 1..Len(tIn) :
              /\ tIn[i].role = "model" => tOut[i].role = "assistant"
              /\ tIn[i].role = "user" => tOut[i].role = "user"
              /\ IF tIn[i].parts = <<>> THEN tOut[i].content = ""
                 ELSE SplitLines(tOut[i].content)
                        = [j \in 1..Len(tIn[i].parts) |-> tIn[i].parts[j].text]
        /\ history = <<ModelMsg(Greeting)>>
        /\ input = DefaultStarter
        /\ error = ""
        /\ ~loading
        /\ calls = {}
        /\ netCalls = 0

\* a model entry of two parts followed by a user entry of one part
C9_Witness ==
    /\ ev.op = "toOpenAIMessages"
    /\ Len(tIn) = 2
    /\ tIn[1] = [role |-> "model", parts |-> <<[text |-> "ab"], [text |-> ""]>>]
    /\ tIn[2] = [role |-> "user", parts |-> <<[text |-> "ab"]>>]
    /\ tOut = << [role |-> "assistant", content |-> "ab\n"],
                 [role |-> "user", content |-> "ab"] >>

---------------------------------------------------------------------------
(* Properties of the persisted credential *)

\* C10: toggling persistence off leaves the slot absent, and the slot stays
\* absent for as long as persistence is off, whatever credential edits follow;
\* toggling persistence on with a non-empty credential leaves that credential
\* in the slot.
C10_PersistenceToggle ==
    /\ [](~rememberKey => ~HasItem)
    /\ [][onRememberChange(FALSE) => ~HasItem']_vars
    /\ [][\A v \in Keys : (onApiKeyChange(v) /\ ~rememberKey) => ~HasItem']_vars
    /\ [][(onRememberChange(TRUE) /\ apiKey # "")
            => (HasItem' /\ localStorage'[StorageKey] = apiKey)]_vars

\* persistence is off, a credential is typed in, and the slot is absent
C10_Witness ==
    /\ ~rememberKey
    /\ apiKey # ""
    /\ ~HasItem
    /\ error = ""

\* C11: whenever persistence is enabled, right after every edit of the
\* credential the persisted slot exists and holds exactly the new in-memory
\* credential, also when the edit empties it, whatever edits, toggles and
\* sends came before.
C11_EditMirrorsKey ==
    [][\A v \in Keys :
          (onApiKeyChange(v) /\ rememberKey)
              => /\ apiKey' = v
                 /\ HasItem'
                 /\ localStorage'[StorageKey] = apiKey']_vars

\* after a send the credential was emptied with persistence on: the slot
\* holds the empty string
C11_Witness ==
    /\ rememberKey
    /\ netCalls >= 1
    /\ apiKey = ""
    /\ HasItem
    /\ localStorage[StorageKey] = ""

---------------------------------------------------------------------------
(* Properties of the error string over a turn *)

\* a sendMessage(m) step that passes the preconditions
Accepted(m) == sendMessage(m) /\ TextOf(m) # "" /\ ~loading /\ apiKey # ""

\* C12: every accepted send clears the error string in the step that issues
\* the request; while the request is outstanding the error string is empty,
\* and a step that sets it to a non-empty value ends the attempt, so it is
\* set at most once per attempt; a turn that completes with a parsed
\* response leaves the error string empty.
C12_ErrorPerAttempt ==
    /\ [][\A m \in SendArgs :
            Accepted(m) => (error' = "" /\ loading' /\ calls' # calls)]_vars
    /\ [](loading => error = "")
    /\ [][(loading /\ error' # error) => (error' # "" /\ ~loading')]_vars
    /\ [][\A c \in calls, data \in Datas :
            jsonResolved(c, data) => error' = ""]_vars

\* the first attempt failed and left an error; the second send cleared it
C12_Witness ==
    /\ ev = Event("sendMessage", "accepted")
    /\ netCalls = 2
    /\ loading
    /\ error = ""
    /\ Len(history) = 3
    /\ history[2].role = "user"
    /\ history[3].role = "user"

---------------------------------------------------------------------------
(* Properties of a success response without a completion text *)

\* parsed bodies that lack a first completion text
NoTextDatas == Datas \ {Completion(JStr(Hello))}

\* C13 as stated: when the status is a success and the body is malformed or
\* empty, or lacks a first completion text, an assistant message with the
\* text '[No content]' is appended and the error string stays empty.
C13_Original ==
    [][\A c \in calls :
          (\/ jsonRejected(c, ParseError)
           \/ \E data \in NoTextDatas : jsonResolved(c, data))
              => /\ RespOk(c.status)
                 /\ history' = history \o <<ModelMsg(NoContent)>>
                 /\ error' = ""]_vars

\* C13 amended: when the status is a success and the body parses but lacks a
\* first completion text (null body, no choices, empty choices, missing
\* message, missing or null content), an assistant message with the text
\* '[No content]' is appended and the error string stays empty; when the
\* body does not parse (malformed or empty), nothing is appended and the
\* error string is set to the parse failure's message.
C13_MissingTextTolerated ==
    /\ [][\A c \in calls, data \in NoTextDatas :
            jsonResolved(c, data)
                => /\ RespOk(c.status)
                   /\ history' = history \o <<ModelMsg(NoContent)>>
                   /\ error = ""
                   /\ error' = ""
                   /\ ~loading']_vars
    /\ [][\A c \in calls :
            jsonRejected(c, ParseError)
                => /\ RespOk(c.status)
                   /\ history' = history
                   /\ error' = ParseError.message
                   /\ error' # ""
                   /\ ~loading']_vars

\* a first turn failed, and the second got a body without a completion text
C13_Witness ==
    /\ ev.op = "jsonResolved"
    /\ netCalls = 2
    /\ Len(history) = 4
    /\ history[3].role = "user"
    /\ history[4] = ModelMsg(NoContent)
    /\ error = ""
    /\ ~loading

---------------------------------------------------------------------------
(* Properties of the conversation *)

\* C14: after initialization has seeded the conversation with the greeting,
\* every step (send, completion, failure, credential, model and input edits,
\* starter prop change) leaves the conversation it found as a prefix of the
\* conversation it leaves: no entry is removed, replaced or reordered.
C14_Original ==
    [][/\ Len(history) <= Len(history')
       /\ SubSeq(history', 1, Len(history)) = history]_vars

---------------------------------------------------------------------------
(* Properties of the requests issued *)

\* C15: each accepted sendMessage issues exactly one network call, whose
\* body carries the model id of that moment and one message per entry of the
\* conversation as it stood before the send, in order and with the roles
\* mapped, followed by the new user message; a sendMessage that fails a
\* precondition issues none, and the count of network calls grows only by
\* one and only in an accepted send, so it equals the number of accepted
\* sends.
C15_OneCallPerAcceptedSend ==
    /\ [][\A m \in SendArgs :
            Accepted(m)
                => /\ netCalls' = netCalls + 1
                   /\ \E c \in calls' \ calls :
                         /\ calls' = calls \cup {c}
                         /\ c.pc = "fetch"
                         /\ c.model = model
                         /\ Len(c.messages) = Len(history) + 1
                         /\ \A i \in 1..Len(history) :
                               /\ c.messages[i].role
                                    = IF history[i].role = "model"
                                      THEN "assistant" ELSE "user"
                               /\ Len(history[i].parts) = 1
                               /\ c.messages[i].content = history[i].parts[1].text
                         /\ c.messages[Len(history) + 1]
                              = [role |-> "user", content |-> TextOf(m)]]_vars
    /\ [][\A m \in SendArgs :
            (sendMessage(m) /\ (TextOf(m) = "" \/ loading \/ apiKey = ""))
                => (netCalls' = netCalls /\ calls' = calls)]_vars
    /\ [][netCalls' # netCalls
            => /\ netCalls' = netCalls + 1
               /\ \E m \in SendArgs : Accepted(m)]_vars
    /\ [][\A c \in calls' \ calls :
            c.pc = "fetch" => \E m \in SendArgs : Accepted(m)]_vars

\* the second request, sent with another model id after a completed turn,
\* replays the greeting, the first question and its reply before the new text
C15_Witness ==
    /\ ev = Event("sendMessage", "accepted")
    /\ netCalls = 2
    /\ \E c \in calls :
          /\ c.model = "gpt-4o-mini"
          /\ c.model # DefaultModel
          /\ Len(c.messages) = 4
          /\ c.messages[1] = [role |-> "assistant", content |-> Greeting]
          /\ c.messages[2].role = "user"
          /\ c.messages[3] = [role |-> "assistant", content |-> Hello]
          /\ c.messages[4] = [role |-> "user", content |-> Suggestions[1]]

---------------------------------------------------------------------------
(* Properties of the in-flight flag *)

\* the steps that end a sendMessage call
EndOps == FailOps \cup {"jsonResolved"}

\* C16: the in-flight flag is true in exactly the states where a request is
\* outstanding; it goes from false to true only in an accepted send and from
\* true to false only in the step that completes the outstanding request,
\* with a reply or with an error; no other step (there is no timeout and no
\* cancellation) clears it, so while the awaits do not settle it stays true,
\* and every sendMessage made meanwhile is ignored.
C16_FlagTracksRequest ==
    /\ [](loading <=> calls # {})
    /\ [][(~loading /\ loading') => \E m \in SendArgs : Accepted(m)]_vars
    /\ [][(loading /\ ~loading')
            => /\ Settle
               /\ ev'.op \in EndOps
               /\ \E c \in calls : calls = {c} /\ calls' = {}]_vars
    /\ [][(loading /\ ~Settle) => (loading' /\ calls' = calls)]_vars
    /\ [][\A m \in SendArgs :
            (sendMessage(m) /\ loading)
                => /\ UNCHANGED progVars
                   /\ ev' = Event("sendMessage", "ignored")]_vars

\* the body of a success response is still being read, and a submit of a
\* non-blank text with a key set was ignored
C16_Witness ==
    /\ ev = Event("sendMessage", "ignored")
    /\ loading
    /\ apiKey # ""
    /\ Trim(input) # ""
    /\ \E c \in calls : c.pc = "json" /\ RespOk(c.status)

---------------------------------------------------------------------------
(* Properties of the field handlers while a request is in flight *)

\* an edit of the credential, the persistence checkbox, the model or the input
FieldEdit ==
    \/ \E v \in Keys : onApiKeyChange(v)
    \/ \E checked \in BOOLEAN : onRememberChange(checked)
    \/ \E v \in Models : onModelChange(v)
    \/ \E v \in Inputs : onInputChange(v)

\* C17: while a request is in flight the credential, the persistence
\* checkbox, the model and the input can each still be edited, and such an
\* edit changes neither the conversation, nor the in-flight flag, nor the
\* error string, nor the outstanding request, which keeps the credential,
\* model and messages captured when it was sent through all its awaits; its
\* completion appends the reply to the conversation the send left, or sets
\* the error, and leaves the edited fields as they are.
C17_EditsInFlight ==
    /\ [](loading =>
            /\ ENABLED (\E v \in Keys : onApiKeyChange(v))
            /\ ENABLED (\E checked \in BOOLEAN : onRememberChange(checked))
            /\ ENABLED (\E v \in Models : onModelChange(v))
            /\ ENABLED (\E v \in Inputs : onInputChange(v)))
    /\ [][(loading /\ FieldEdit)
            => UNCHANGED <<history, loading, error, calls, netCalls>>]_vars
    /\ [][\A c \in calls, d \in calls' :
            d.id = c.id
                => /\ d.key = c.key
                   /\ d.model = c.model
                   /\ d.messages = c.messages
                   /\ d.newHistory = c.newHistory]_vars
    /\ [][\A c \in calls :
            (jsonResolved(c, Completion(JStr(Hello))) /\ history = c.newHistory)
                => /\ history' = c.newHistory \o <<ModelMsg(Hello)>>
                   /\ error' = ""
                   /\ UNCHANGED <<apiKey, model, input, rememberKey, localStorage>>]_vars
    /\ [][\A c \in calls :
            FailsWith(c)
                => /\ history' = history
                   /\ error' # ""
                   /\ UNCHANGED <<apiKey, model, input, rememberKey, localStorage>>]_vars

\* with the body of the response still to be read, the key was emptied, the
\* model changed and a new text typed: the request keeps what it was sent with
C17_Witness ==
    /\ loading
    /\ apiKey = ""
    /\ input # ""
    /\ \E c \in calls :
          /\ c.pc = "json"
          /\ c.key = "sk-A"
          /\ c.model # model
          /\ c.newHistory = history

---------------------------------------------------------------------------
(* Properties of the counter animation *)

\* the counter c has a timeout pending
Pending(c) == \E i \in 1..Len(timers) : timers[i] = c

\* C18: for every counter whose data-target is a non-negative integer and
\* whose text starts at 0, the updateCount loop stops after finitely many
\* timeouts: once the counters have been started, a state with no timeout
\* pending is reached, a counter with none pending gets none again, and a
\* started counter with none pending shows exactly its target.
C18_CounterLoopEnds ==
    /\ hasCounted ~> (timers = <<>>)
    /\ [][\A c \in Counters : (hasCounted /\ ~Pending(c)) => ~Pending(c)']_vars
    /\ [](\A c \in Counters :
            (hasCounted /\ ~Pending(c))
                => /\ ToNumber(innerText[c]) = ToNumber(dataTarget[c])
                   /\ innerText[c] = dataTarget[c])

\* both loops have run and stopped: the counters show 2 and 63
C18_Witness ==
    /\ hasCounted
    /\ timers = <<>>
    /\ dataTarget[1] = "2"
    /\ dataTarget[2] = "63"
    /\ innerText[1] = "2"
    /\ innerText[2] = "63"

\* the number of timeouts pending for the counter c
Chains(c) == Cardinality({i \in 1..Len(timers) : timers[i] = c})

\* C19: over any sequence of scroll events, the initial call included,
\* initCounters runs at most once, so each counter has at most one timeout
\* pending at any time; a scroll event that arrives after the counters were
\* started leaves their texts and timeouts alone, also when it reveals
\* another block that contains a counter; and a reveal element that has the
\* class 'active' keeps it.
C19_CountersStartOnce ==
    /\ [](initRuns <= 1 /\ (hasCounted <=> initRuns = 1))
    /\ [](\A c \in Counters : Chains(c) <= 1)
    /\ [][\A tops \in [Reveals -> Tops], h \in WindowHeights :
            (revealOnScroll(tops, h) /\ hasCounted)
                => UNCHANGED <<innerText, timers, initRuns, hasCounted>>]_vars
    /\ [][active \subseteq active']_vars

\* two revealed blocks that each contain a counter, both counters still
\* animating, initCounters called once
C19_Witness ==
    /\ \A r \in Reveals : hasCounter[r] /\ r \in active
    /\ initRuns = 1
    /\ Len(timers) = MaxCounters
    /\ \A c \in Counters : Chains(c) = 1 /\ ToNumber(innerText[c]) > 0

\* the number the counter c shows, and the number it counts to
Shown(c) == ToNumber(innerText[c])
TargetOf(c) == ToNumber(dataTarget[c])

\* the amount one timeout adds: 16 * target / 1000, rounded up
StepOf(c) == CeilDiv(FrameMs * TargetOf(c), Speed)

\* C20 as stated: while a counter runs toward a positive target the number
\* it shows never decreases from one state to the next and never exceeds
\* the target.
C20_Original ==
    /\ [](\A c \in Counters : TargetOf(c) > 0 => Shown(c) <= TargetOf(c))
    /\ [][\A c \in Counters : TargetOf(c) > 0 => Shown(c) <= Shown(c)']_vars

\* C20 amended: while a counter runs toward a positive target, every run of
\* updateCount that finds the number below the target adds the step (16 *
\* target / 1000 rounded up, at least 1) to it, so the number grows strictly
\* and stays below target + step; it can pass the target when the step does
\* not divide it, and the run that finds it at or above the target sets it
\* to the target, lowering it by less than the step. The number never
\* exceeds the target when the step divides the target.
C20_CountStepsThenSnaps ==
    /\ [](\A c \in Counters :
            TargetOf(c) > 0
                => /\ StepOf(c) >= 1
                   /\ Shown(c) < TargetOf(c) + StepOf(c)
                   /\ Shown(c) % StepOf(c) = 0 \/ Shown(c) = TargetOf(c)
                   /\ TargetOf(c) % StepOf(c) = 0 => Shown(c) <= TargetOf(c))
    /\ [][\A c \in Counters :
            (TargetOf(c) > 0 /\ innerText[c]' # innerText[c])
                => IF Shown(c) < TargetOf(c)
                   THEN Shown(c)' = Shown(c) + StepOf(c) /\ Pending(c)'
                   ELSE /\ Shown(c)' = TargetOf(c)
                        /\ Shown(c) - StepOf(c) < Shown(c)'
                        /\ Shown(c)' < Shown(c)
                        /\ ~Pending(c)']_vars
    /\ [][\A c \in Counters :
            (updateCount /\ Head(timers) = c /\ Shown(c) < TargetOf(c))
                => Shown(c)' > Shown(c)]_vars

\* the counter for 63 shows 64 with its last timeout pending
C20_Witness ==
    \E c \in Counters :
        /\ dataTarget[c] = "63"
        /\ innerText[c] = "64"
        /\ Pending(c)
        /\ hasCounted

====
